---- MODULE Spec2Model ----
(***************************************************************************)
(* Geneve header codec (src/src/geneve.rs): TunnelOption, Header and       *)
(* GenevePacket encode (marshal, marshal_to_slice) and decode (unmarshal,  *)
(* new, try_from), at the level of the bytes they read and write.          *)
(*                                                                         *)
(* A byte buffer is a sequence of 0..255; Rust's 0-based half-open slice   *)
(* b[s..e] is Slice(b, s, e).  Option<T> is a record with a `some` flag.   *)
(* u8 arithmetic keeps its width: an overflowing u8 operation panics when  *)
(* the build has overflow checks and wraps modulo 256 when it has not.     *)
(***************************************************************************)
EXTENDS Integers, Sequences, FiniteSets, TLC

VARIABLES
    opt,              \* the TunnelOption the caller holds
    hdr,              \* the Header the caller holds
    input,            \* bytes received by the caller, to be decoded
    vec,              \* the caller's growable buffer (Vec<u8>)
    dst0,             \* the caller's fixed slice before the last fixed-buffer call
    dst,              \* the caller's fixed slice after the last fixed-buffer call
    pkt,              \* the GenevePacket last decoded, Option<GenevePacket>
    call,             \* name of the last operation called
    ret               \* what the last operation returned

vars == <<opt, hdr, input, vec, dst0, dst, pkt, call, ret>>

(***************************************************************************)
(* Bounds of the model                                                     *)
(***************************************************************************)
MaxDataLen == 129
MaxOpts == 2
DstSlack == 3
MaxMissing == 1
MaxPayload == 1

(***************************************************************************)
(* Program constants                                                       *)
(***************************************************************************)
MIN_GENEVE_HDR == 8
MIN_SIZE == 8
MIN_OPT_SIZE == 4
MAX_DATA_SIZE == 128

(***************************************************************************)
(* Bytes and slices                                                        *)
(***************************************************************************)
Min(a, b) == IF a < b THEN a ELSE b
Max(a, b) == IF a < b THEN b ELSE a

Zeros(n) == [i \in 1..n |-> 0]

\* b[s..e]
Slice(b, s, e) == SubSeq(b, s + 1, e)

\* b[s..e] is in bounds (otherwise the slice expression panics)
SliceOk(b, s, e) == s <= e /\ e <= Len(b)

\* dest[at .. at+Len(src)].copy_from_slice(src), for at + Len(src) <= Len(dest)
CopyInto(dest, at, src) ==
    SubSeq(dest, 1, at) \o src \o SubSeq(dest, at + Len(src) + 1, Len(dest))

\* u16::to_be_bytes
U16BE(x) == <<(x \div 256) % 256, x % 256>>

\* u32::to_be_bytes()[1..]
U32BELow3(x) == <<(x \div 65536) % 256, (x \div 256) % 256, x % 256>>

None == [some |-> FALSE, bytes |-> <<>>]
Some(b) == [some |-> TRUE, bytes |-> b]

(***************************************************************************)
(* TunnelOption                                                            *)
(***************************************************************************)
\* TunnelOption::data_len
data_len(self) == IF self.data.some THEN Len(self.data.bytes) ELSE 0

\* TunnelOption::opt_len
TunnelOption_opt_len(self) ==
    LET dl == data_len(self)
        remainder_len == IF dl % 4 # 0 THEN 4 - (dl % 4) ELSE 0
    IN  MIN_OPT_SIZE + dl + remainder_len

\* TunnelOption::encode_opt: the 4-byte option header
encode_opt(self) ==
    U16BE(self.option_class)
    \o << IF self.c_flag /\ self.option_type < 128
             THEN self.option_type + 128 ELSE self.option_type >>
    \o << ((data_len(self) % 256) + 3) \div 4 >>

\* TunnelOption::marshal with the size check off by one (>= for >)
TunnelOption_marshal_strict(self, buffer) ==
    IF data_len(self) >= MAX_DATA_SIZE
    THEN [ok |-> FALSE, err |-> "InvalidLength", buffer |-> buffer]
    ELSE LET remainder_len == TunnelOption_opt_len(self) - MIN_OPT_SIZE - data_len(self)
             body == IF ~self.data.some THEN <<>>
                     ELSE IF Len(self.data.bytes) % 4 = 0 THEN self.data.bytes
                     ELSE self.data.bytes \o Zeros(remainder_len)
         IN  [ok |-> TRUE, err |-> "", buffer |-> buffer \o encode_opt(self) \o body]

\* TunnelOption::marshal, appending to the Vec `buffer`
TunnelOption_marshal(self, buffer) ==
    IF data_len(self) > MAX_DATA_SIZE
    THEN [ok |-> FALSE, err |-> "InvalidLength", buffer |-> buffer]
    ELSE LET remainder_len == TunnelOption_opt_len(self) - MIN_OPT_SIZE - data_len(self)
             body == IF ~self.data.some THEN <<>>
                     ELSE IF Len(self.data.bytes) % 4 = 0 THEN self.data.bytes
                     ELSE self.data.bytes \o Zeros(remainder_len)
         IN  [ok |-> TRUE, err |-> "", buffer |-> buffer \o encode_opt(self) \o body]

\* TunnelOption::marshal_to_slice without the loop that zeroes the padding
TunnelOption_marshal_to_slice_nopad(self, buffer) ==
    IF data_len(self) > MAX_DATA_SIZE
    THEN [ok |-> FALSE, err |-> "InvalidLength", n |-> 0, buffer |-> buffer]
    ELSE IF Len(buffer) < TunnelOption_opt_len(self)
    THEN [ok |-> FALSE, err |-> "InvalidLength", n |-> 0, buffer |-> buffer]
    ELSE LET b1 == CopyInto(buffer, 0, encode_opt(self))
         IN  IF ~self.data.some
             THEN [ok |-> TRUE, err |-> "", n |-> 4, buffer |-> b1]
             ELSE [ok |-> TRUE, err |-> "", n |-> TunnelOption_opt_len(self),
                   buffer |-> CopyInto(b1, 4, self.data.bytes)]

\* TunnelOption::marshal_to_slice, writing into the slice `buffer`
TunnelOption_marshal_to_slice(self, buffer) ==
    IF data_len(self) > MAX_DATA_SIZE
    THEN [ok |-> FALSE, err |-> "InvalidLength", n |-> 0, buffer |-> buffer]
    ELSE IF Len(buffer) < TunnelOption_opt_len(self)
    THEN [ok |-> FALSE, err |-> "InvalidLength", n |-> 0, buffer |-> buffer]
    ELSE LET b1 == CopyInto(buffer, 0, encode_opt(self))
             pos1 == 4
         IN  IF ~self.data.some
             THEN [ok |-> TRUE, err |-> "", n |-> pos1, buffer |-> b1]
             ELSE LET b2 == CopyInto(b1, pos1, self.data.bytes)
                      pos2 == pos1 + Len(self.data.bytes)
                      stop == Min(TunnelOption_opt_len(self), Len(buffer))
                      b3 == IF stop > pos2 THEN CopyInto(b2, pos2, Zeros(stop - pos2)) ELSE b2
                  IN  [ok |-> TRUE, err |-> "", n |-> Max(pos2, stop), buffer |-> b3]

\* TunnelOption::unmarshal applied to the slice buffer[s..e], read in place:
\* Option<TunnelOption>
UnmarshalAt(buffer, s, e) ==
    IF e - s >= 4
    THEN LET i == (buffer[s + 4] % 32) * 4
         IN  IF i = 0
             THEN [some |-> TRUE,
                   value |-> [option_class |-> buffer[s + 1] * 256 + buffer[s + 2],
                              option_type |-> buffer[s + 3] % 128,
                              c_flag |-> (buffer[s + 3] \div 128 = 1),
                              data |-> None]]
             ELSE IF i <= (e - s) - 4
             THEN [some |-> TRUE,
                   value |-> [option_class |-> buffer[s + 1] * 256 + buffer[s + 2],
                              option_type |-> buffer[s + 3] % 128,
                              c_flag |-> (buffer[s + 3] \div 128 = 1),
                              data |-> Some(Slice(buffer, s + 4, s + 4 + i))]]
             ELSE [some |-> FALSE]
    ELSE [some |-> FALSE]

\* TunnelOption::unmarshal(buffer)
TunnelOption_unmarshal(buffer) == UnmarshalAt(buffer, 0, Len(buffer))

\* TunnelOption::advance
TunnelOption_advance(self) ==
    IF self.data.some
    THEN LET l == Len(self.data.bytes)
         IN  IF l % 4 = 0 THEN l + 4 ELSE (l + (4 - (l % 4))) \div 4
    ELSE 4

(***************************************************************************)
(* Header                                                                  *)
(***************************************************************************)
NoOptions == [some |-> FALSE, list |-> <<>>]
SomeOptions(l) == [some |-> TRUE, list |-> l]

RECURSIVE SumOptLen(_)
\* opts.iter().fold(0, |acc, o| acc + o.opt_len())
SumOptLen(opts) ==
    IF opts = <<>> THEN 0
    ELSE TunnelOption_opt_len(Head(opts)) + SumOptLen(Tail(opts))

\* Header::opt_len
Header_opt_len(self) ==
    IF self.options.some THEN SumOptLen(self.options.list) ELSE 0

\* Header::header_len
header_len(self) == MIN_SIZE + Header_opt_len(self)

\* Header::encode_header: the 8-byte fixed header
encode_header(self) ==
    << ((self.version * 64) % 256) + ((Header_opt_len(self) \div 4) % 64) >>
    \o << CASE ~self.control_flag /\ ~self.critical_flag -> 0
            [] self.control_flag /\ ~self.critical_flag -> 128
            [] ~self.control_flag /\ self.critical_flag -> 64
            [] self.control_flag /\ self.critical_flag -> 192 >>
    \o U16BE(self.protocol)
    \o U32BELow3(self.vni)
    \o << 0 >>

RECURSIVE MarshalOptions(_, _)
\* the loop of Header::marshal: every option appended to opt_buffer, `?` on the first error
MarshalOptions(opts, opt_buffer) ==
    IF opts = <<>> THEN [ok |-> TRUE, err |-> "", buffer |-> opt_buffer]
    ELSE LET r == TunnelOption_marshal(Head(opts), opt_buffer)
         IN  IF r.ok THEN MarshalOptions(Tail(opts), r.buffer) ELSE r

\* Header::marshal, appending to the Vec `buffer`
Header_marshal(self, buffer) ==
    LET o == IF self.options.some THEN MarshalOptions(self.options.list, <<>>)
             ELSE [ok |-> TRUE, err |-> "", buffer |-> <<>>]
    IN  IF o.ok
        THEN [ok |-> TRUE, err |-> "", buffer |-> buffer \o encode_header(self) \o o.buffer]
        ELSE [ok |-> FALSE, err |-> o.err, buffer |-> buffer]

RECURSIVE MarshalOptionsToSlice(_, _, _)
\* the loop of Header::marshal_to_slice: each option written at buffer[pos..], `?` on the first error
MarshalOptionsToSlice(opts, buffer, pos) ==
    IF opts = <<>> THEN [ok |-> TRUE, err |-> "", n |-> pos, buffer |-> buffer]
    ELSE LET r == TunnelOption_marshal_to_slice(Head(opts), Slice(buffer, pos, Len(buffer)))
         IN  IF r.ok
             THEN MarshalOptionsToSlice(Tail(opts), CopyInto(buffer, pos, r.buffer), pos + r.n)
             ELSE [ok |-> FALSE, err |-> r.err, n |-> 0, buffer |-> buffer]

\* Header::marshal_to_slice, writing into the slice `buffer`
Header_marshal_to_slice(self, buffer) ==
    IF Len(buffer) < header_len(self)
    THEN [ok |-> FALSE, err |-> "InvalidLength", n |-> 0, buffer |-> buffer]
    ELSE LET b1 == CopyInto(buffer, 0, encode_header(self))
         IN  IF self.options.some
             THEN MarshalOptionsToSlice(self.options.list, b1, MIN_SIZE)
             ELSE [ok |-> TRUE, err |-> "", n |-> MIN_SIZE, buffer |-> b1]

\* ((buffer[0] & 0x3f) * 4) + 8 in u8: overflow panics in a build with
\* overflow checks and wraps in a build without
OptionsEnd(buffer, oc) ==
    LET x == ((buffer[1] % 64) * 4) + 8
    IN  IF x > 255
        THEN (IF oc THEN [panic |-> TRUE, end |-> 0] ELSE [panic |-> FALSE, end |-> x % 256])
        ELSE [panic |-> FALSE, end |-> x]

RECURSIVE UnmarshalOptions(_, _, _, _)
\* the `while let Some(k) = TunnelOption::unmarshal(&buffer[cursor..end])` loop
UnmarshalOptions(buffer, cursor, vector, oc) ==
    LET e == OptionsEnd(buffer, oc)
    IN  IF e.panic \/ ~SliceOk(buffer, cursor, e.end)
        THEN [panic |-> TRUE, vector |-> vector, cursor |-> cursor]
        ELSE LET k == UnmarshalAt(buffer, cursor, e.end)
             IN  IF k.some
                 THEN UnmarshalOptions(buffer, cursor + TunnelOption_advance(k.value),
                                       Append(vector, k.value), oc)
                 ELSE [panic |-> FALSE, vector |-> vector, cursor |-> cursor]

NoHeader == [panic |-> FALSE, some |-> FALSE]
Panicked == [panic |-> TRUE, some |-> FALSE]

\* Header::unmarshal: Option<(Header, usize)>, or a panic
Header_unmarshal(buffer, oc) ==
    IF Len(buffer) >= MIN_GENEVE_HDR
    THEN IF buffer[1] \div 64 # 0 THEN NoHeader
         ELSE LET i == (buffer[1] % 64) * 4
                  o == IF i = 0 \/ i > Len(buffer) - MIN_GENEVE_HDR
                       THEN [panic |-> FALSE, vector |-> <<>>, cursor |-> MIN_GENEVE_HDR]
                       ELSE UnmarshalOptions(buffer, MIN_GENEVE_HDR, <<>>, oc)
              IN  IF o.panic THEN Panicked
                  ELSE [panic |-> FALSE, some |-> TRUE,
                        hdr |-> [version |-> 0,
                                 control_flag |-> (buffer[2] \div 128 = 1),
                                 critical_flag |-> ((buffer[2] % 128) \div 64 = 1),
                                 protocol |-> buffer[3] * 256 + buffer[4],
                                 vni |-> buffer[5] * 65536 + buffer[6] * 256 + buffer[7],
                                 options |-> IF i = 0 \/ i > Len(buffer) - MIN_GENEVE_HDR
                                             THEN NoOptions ELSE SomeOptions(o.vector),
                                 options_len |-> i],
                        cursor |-> o.cursor]
    ELSE NoHeader

(***************************************************************************)
(* GenevePacket                                                            *)
(***************************************************************************)
NoPacket == [some |-> FALSE]

Packet(h, k, buffer) == [some |-> TRUE, hdr |-> h, offset |-> k, payload |-> buffer]

\* GenevePacket::new: Option<GenevePacket>
GenevePacket_new(packet, oc) ==
    LET h == Header_unmarshal(packet, oc)
    IN  IF h.panic THEN [panic |-> TRUE, ok |-> FALSE, err |-> "", value |-> NoPacket]
        ELSE IF h.some
        THEN [panic |-> FALSE, ok |-> TRUE, err |-> "", value |-> Packet(h.hdr, h.cursor, packet)]
        ELSE [panic |-> FALSE, ok |-> FALSE, err |-> "", value |-> NoPacket]

\* GenevePacket::unmarshal: Result<GenevePacket, GeneveErr>
GenevePacket_unmarshal(buffer, oc) ==
    IF Len(buffer) >= MIN_GENEVE_HDR
    THEN LET h == Header_unmarshal(buffer, oc)
         IN  IF h.panic THEN [panic |-> TRUE, ok |-> FALSE, err |-> "", value |-> NoPacket]
             ELSE IF h.some
             THEN [panic |-> FALSE, ok |-> TRUE, err |-> "",
                   value |-> Packet(h.hdr, h.cursor, buffer)]
             ELSE [panic |-> FALSE, ok |-> FALSE, err |-> "NotGeneve", value |-> NoPacket]
    ELSE [panic |-> FALSE, ok |-> FALSE, err |-> "InvalidLength", value |-> NoPacket]

\* <GenevePacket as TryFrom<&[u8]>>::try_from: Result<GenevePacket, GeneveErr>
GenevePacket_try_from(packet, oc) ==
    LET h == Header_unmarshal(packet, oc)
    IN  IF h.panic THEN [panic |-> TRUE, ok |-> FALSE, err |-> "", value |-> NoPacket]
        ELSE IF h.some
        THEN [panic |-> FALSE, ok |-> TRUE, err |-> "", value |-> Packet(h.hdr, h.cursor, packet)]
        ELSE [panic |-> FALSE, ok |-> FALSE, err |-> "NotGeneve", value |-> NoPacket]

\* GenevePacket::marshal, appending to the Vec `buffer`
GenevePacket_marshal(self, buffer) ==
    LET h == Header_marshal(self.hdr, <<>>)
    IN  IF h.ok
        THEN [ok |-> TRUE, err |-> "",
              buffer |-> buffer \o h.buffer \o Slice(self.payload, self.offset, Len(self.payload))]
        ELSE [ok |-> FALSE, err |-> h.err, buffer |-> buffer]

\* GenevePacket::marshal_to_slice, writing into the slice `buffer`
GenevePacket_marshal_to_slice(self, buffer) ==
    LET payload_len == Len(self.payload) - self.offset
    IN  IF Len(buffer) < header_len(self.hdr) + payload_len
        THEN [ok |-> FALSE, err |-> "InvalidLength", n |-> 0, buffer |-> buffer]
        ELSE LET h == Header_marshal_to_slice(self.hdr, buffer)
             IN  IF h.ok
                 THEN [ok |-> TRUE, err |-> "", n |-> h.n + payload_len,
                       buffer |-> CopyInto(h.buffer, h.n,
                                           Slice(self.payload, self.offset, Len(self.payload)))]
                 ELSE h

(***************************************************************************)
(* Inputs                                                                  *)
(***************************************************************************)
\* (option_class, option_type) pairs
OptionKinds == {<<65535, 10>>, <<258, 127>>}
Fills == {1, 2}

\* byte i of a data block: fill 1 has no zero byte, fill 2 is 00 01 00 01 ...
DataByte(f, i) == IF f = 1 THEN (i % 255) + 1 ELSE (i + 1) % 2

Data(n, f) == [i \in 1..n |-> DataByte(f, i)]

DataInputs == {None} \cup {Some(Data(n, f)) : n \in 0..MaxDataLen, f \in Fills}

OptionInputs ==
    {[option_class |-> k[1], option_type |-> k[2], c_flag |-> c, data |-> d] :
        k \in OptionKinds, c \in BOOLEAN, d \in DataInputs}

DefaultOption ==
    [option_class |-> 65535, option_type |-> 10, c_flag |-> FALSE, data |-> None]

\* data lengths of the options put in a header's list
HdrDataLens == {2, 4, 120, MAX_DATA_SIZE, MaxDataLen}

HdrOptionInputs ==
    {[option_class |-> 65535, option_type |-> 10, c_flag |-> FALSE, data |-> None]}
    \cup {[option_class |-> 65535, option_type |-> 11, c_flag |-> (n = 4),
           data |-> Some(Data(n, 1))] : n \in HdrDataLens}

RECURSIVE ListsUpTo(_, _)
\* every list of at most n elements of S
ListsUpTo(S, n) ==
    IF n = 0 THEN {<<>>}
    ELSE LET shorter == ListsUpTo(S, n - 1)
         IN  shorter \cup {Append(l, x) : l \in shorter, x \in S}

OptionsInputs ==
    {NoOptions} \cup {SomeOptions(l) : l \in ListsUpTo(HdrOptionInputs, MaxOpts)}

\* (version, vni) pairs
VersionVni == {<<0, 11184878>>, <<1, 27962094>>}

\* options_len is a field the caller sets: left 0, or the sum of the options' opt_len()
HeaderInputs ==
    UNION {{[version |-> v[1], control_flag |-> co, critical_flag |-> cr,
             protocol |-> 34525, vni |-> v[2], options |-> o, options_len |-> ol] :
                v \in VersionVni, co \in BOOLEAN, cr \in BOOLEAN,
                ol \in {0, (IF o.some THEN SumOptLen(o.list) ELSE 0) % 256}} :
           o \in OptionsInputs}

DefaultHeader ==
    [version |-> 0, control_flag |-> FALSE, critical_flag |-> FALSE,
     protocol |-> 34525, vni |-> 11184878, options |-> NoOptions, options_len |-> 0]

\* the word every 4 bytes of a received option area repeat, lb its length byte
Word(lb) == <<255, 255, 138, lb>>

LengthBytes == {0, 1, 31}

\* the flag byte (byte 1) sent with each length byte: C; O and reserved bits; O and C
FlagByteOf(lb) == CASE lb = 0 -> 64 [] lb = 1 -> 191 [] OTHER -> 192

\* a received buffer: version v, option-length field f, then 4 * f + cut
\* bytes (cut < 0: truncated, cut > 0: payload follows)
Raw(v, f, lb, cut) ==
    <<v * 64 + f, FlagByteOf(lb), 134, 221, 170, 170, 238, 0>>
    \o [i \in 1..Max(0, 4 * f + cut) |-> Word(lb)[((i - 1) % 4) + 1]]

RawInputs ==
    {[i \in 1..l |-> b] : l \in 0..(MIN_GENEVE_HDR - 1), b \in {0, 64}}
    \cup {Raw(0, f, lb, cut) : f \in 0..63, lb \in LengthBytes,
                               cut \in (0 - MaxMissing)..MaxPayload}
    \cup {Raw(v, f, 0, 0) : v \in 1..3, f \in {0, 63}}

FillByte == 238

\* destination slices offered to a fixed-buffer encode that needs n bytes
Slices(n) ==
    {[i \in 1..l |-> FillByte] : l \in ({0, n - 1, n, n + DstSlack} \cap Nat)}

(***************************************************************************)
(* The caller's operations.  Every call gets fresh output buffers: vec is  *)
(* the Vec of the last growable-buffer encode, dst0 and dst the slice of   *)
(* the last fixed-buffer encode, and they are empty after any other call;  *)
(* a decode may read the bytes that the call before it encoded.            *)
(***************************************************************************)
NoSlice == dst0' = <<>> /\ dst' = <<>>

Sources == {"input", "vec"}

\* the buffer a decode reads
Bytes(src, in, v) == IF src = "vec" THEN v ELSE in

\* opt.marshal(&mut vec)
TunnelOptionMarshal ==
    LET r == TunnelOption_marshal(opt, <<>>)
    IN  /\ vec' = r.buffer
        /\ call' = "TunnelOption::marshal"
        /\ ret' = [ok |-> r.ok, err |-> r.err]
        /\ NoSlice
        /\ pkt' = NoPacket
        /\ UNCHANGED <<opt, hdr, input>>

\* opt.marshal_to_slice(&mut dst)
TunnelOptionMarshalToSlice ==
    \E d \in Slices(TunnelOption_opt_len(opt)) :
        LET r == TunnelOption_marshal_to_slice(opt, d)
        IN  /\ dst0' = d
            /\ dst' = r.buffer
            /\ call' = "TunnelOption::marshal_to_slice"
            /\ ret' = [ok |-> r.ok, err |-> r.err, n |-> r.n]
            /\ vec' = <<>>
            /\ pkt' = NoPacket
            /\ UNCHANGED <<opt, hdr, input>>

\* TunnelOption::unmarshal(&input) or (&vec); ret.src tells which
TunnelOptionUnmarshal ==
    \E src \in Sources :
        /\ call' = "TunnelOption::unmarshal"
        /\ ret' = [src |-> src, value |-> TunnelOption_unmarshal(Bytes(src, input, vec))]
        /\ NoSlice
        /\ pkt' = NoPacket
        /\ UNCHANGED <<opt, hdr, input, vec>>

\* opt.advance()
TunnelOptionAdvance ==
    /\ call' = "TunnelOption::advance"
    /\ ret' = [value |-> TunnelOption_advance(opt)]
    /\ vec' = <<>>
    /\ NoSlice
    /\ pkt' = NoPacket
    /\ UNCHANGED <<opt, hdr, input>>

\* opt.opt_len()
TunnelOptionOptLen ==
    /\ call' = "TunnelOption::opt_len"
    /\ ret' = [value |-> TunnelOption_opt_len(opt)]
    /\ vec' = <<>>
    /\ NoSlice
    /\ pkt' = NoPacket
    /\ UNCHANGED <<opt, hdr, input>>

\* hdr.marshal(&mut vec)
HeaderMarshal ==
    LET r == Header_marshal(hdr, <<>>)
    IN  /\ vec' = r.buffer
        /\ call' = "Header::marshal"
        /\ ret' = [ok |-> r.ok, err |-> r.err]
        /\ NoSlice
        /\ pkt' = NoPacket
        /\ UNCHANGED <<opt, hdr, input>>

\* hdr.marshal_to_slice(&mut dst)
HeaderMarshalToSlice ==
    \E d \in Slices(header_len(hdr)) :
        LET r == Header_marshal_to_slice(hdr, d)
        IN  /\ dst0' = d
            /\ dst' = r.buffer
            /\ call' = "Header::marshal_to_slice"
            /\ ret' = [ok |-> r.ok, err |-> r.err, n |-> r.n]
            /\ vec' = <<>>
            /\ pkt' = NoPacket
            /\ UNCHANGED <<opt, hdr, input>>

\* Header::unmarshal(&input) or (&vec); ret.src tells which
HeaderUnmarshal ==
    \E src \in Sources, oc \in BOOLEAN :
        /\ call' = "Header::unmarshal"
        /\ ret' = [src |-> src, value |-> Header_unmarshal(Bytes(src, input, vec), oc)]
        /\ NoSlice
        /\ pkt' = NoPacket
        /\ UNCHANGED <<opt, hdr, input, vec>>

\* GenevePacket::new(&input)
GenevePacketNew ==
    \E oc \in BOOLEAN :
        LET r == GenevePacket_new(input, oc)
        IN  /\ call' = "GenevePacket::new"
            /\ ret' = [panic |-> r.panic, ok |-> r.ok, err |-> r.err]
            /\ pkt' = r.value
            /\ vec' = <<>>
            /\ NoSlice
            /\ UNCHANGED <<opt, hdr, input>>

\* GenevePacket::unmarshal(&input)
GenevePacketUnmarshal ==
    \E oc \in BOOLEAN :
        LET r == GenevePacket_unmarshal(input, oc)
        IN  /\ call' = "GenevePacket::unmarshal"
            /\ ret' = [panic |-> r.panic, ok |-> r.ok, err |-> r.err]
            /\ pkt' = r.value
            /\ vec' = <<>>
            /\ NoSlice
            /\ UNCHANGED <<opt, hdr, input>>

\* GenevePacket::try_from(&input)
GenevePacketTryFrom ==
    \E oc \in BOOLEAN :
        LET r == GenevePacket_try_from(input, oc)
        IN  /\ call' = "GenevePacket::try_from"
            /\ ret' = [panic |-> r.panic, ok |-> r.ok, err |-> r.err]
            /\ pkt' = r.value
            /\ vec' = <<>>
            /\ NoSlice
            /\ UNCHANGED <<opt, hdr, input>>

\* pkt.hdr = hdr: the field is public
GenevePacketSetHdr ==
    /\ pkt.some
    /\ pkt' = [pkt EXCEPT !.hdr = hdr]
    /\ call' = "GenevePacket.hdr ="
    /\ ret' = [ok |-> TRUE]
    /\ vec' = <<>>
    /\ NoSlice
    /\ UNCHANGED <<opt, hdr, input>>

\* pkt.marshal(&mut vec)
GenevePacketMarshal ==
    /\ pkt.some
    /\ LET r == GenevePacket_marshal(pkt, <<>>)
       IN  /\ vec' = r.buffer
           /\ call' = "GenevePacket::marshal"
           /\ ret' = [ok |-> r.ok, err |-> r.err]
    /\ NoSlice
    /\ UNCHANGED <<opt, hdr, input, pkt>>

\* pkt.marshal_to_slice(&mut dst)
GenevePacketMarshalToSlice ==
    /\ pkt.some
    /\ \E d \in Slices(header_len(pkt.hdr) + Len(pkt.payload) - pkt.offset) :
        LET r == GenevePacket_marshal_to_slice(pkt, d)
        IN  /\ dst0' = d
            /\ dst' = r.buffer
            /\ call' = "GenevePacket::marshal_to_slice"
            /\ ret' = [ok |-> r.ok, err |-> r.err, n |-> r.n]
    /\ vec' = <<>>
    /\ UNCHANGED <<opt, hdr, input, pkt>>

(***************************************************************************)
(* Specifications                                                          *)
(***************************************************************************)
Fresh ==
    /\ vec = <<>>
    /\ dst0 = <<>>
    /\ dst = <<>>
    /\ pkt = NoPacket
    /\ call = "none"
    /\ ret = [ok |-> TRUE]

InitOption == opt \in OptionInputs /\ hdr = DefaultHeader /\ input = <<>> /\ Fresh
InitHeader == opt = DefaultOption /\ hdr \in HeaderInputs /\ input = <<>> /\ Fresh
InitPacket == opt = DefaultOption /\ hdr = DefaultHeader /\ input \in RawInputs /\ Fresh

NextOption ==
    \/ TunnelOptionMarshal
    \/ TunnelOptionMarshalToSlice
    \/ TunnelOptionUnmarshal
    \/ TunnelOptionAdvance
    \/ TunnelOptionOptLen

NextHeader ==
    \/ HeaderMarshal
    \/ HeaderMarshalToSlice
    \/ HeaderUnmarshal

NextPacket ==
    \/ HeaderUnmarshal
    \/ GenevePacketNew
    \/ GenevePacketUnmarshal
    \/ GenevePacketTryFrom
    \/ GenevePacketMarshal
    \/ GenevePacketMarshalToSlice

\* the option codec on every option
Spec == InitOption /\ [][NextOption]_vars

\* the header codec on every header
SpecHeader == InitHeader /\ [][NextHeader]_vars

\* the decoders on every received buffer
SpecPacket == InitPacket /\ [][NextPacket]_vars

\* headers and received buffers of the packets whose public hdr field is reassigned
PacketHeaderInputs ==
    {h \in HeaderInputs : h.version = 0 /\ ~h.control_flag /\ ~h.critical_flag
                          /\ h.options_len = 0}

PacketRawInputs ==
    {Raw(0, f, lb, cut) : f \in {0, 2, 3}, lb \in {0, 1}, cut \in {0, MaxPayload}}

InitEncode ==
    \/ InitOption
    \/ InitHeader
    \/ opt = DefaultOption /\ hdr \in PacketHeaderInputs /\ input \in PacketRawInputs /\ Fresh

NextEncode ==
    \/ TunnelOptionMarshal
    \/ TunnelOptionMarshalToSlice
    \/ HeaderMarshal
    \/ HeaderMarshalToSlice
    \/ GenevePacketNew
    \/ GenevePacketSetHdr
    \/ GenevePacketMarshal
    \/ GenevePacketMarshalToSlice

\* the encoders on every option, every header, and packets decoded and re-headed
SpecEncode == InitEncode /\ [][NextEncode]_vars

(***************************************************************************)
(* Properties                                                              *)
(***************************************************************************)
RoundUp4(n) == ((n + 3) \div 4) * 4

ValidOption(o) == o.option_type <= 127 /\ data_len(o) <= 128

DataBytes(o) == IF o.data.some THEN o.data.bytes ELSE <<>>

\* same class, type and flag, and the same data byte for byte
SameOption(a, b) ==
    /\ a.option_class = b.option_class
    /\ a.option_type = b.option_type
    /\ a.c_flag = b.c_flag
    /\ DataBytes(a) = DataBytes(b)

OptionList(h) == IF h.options.some THEN h.options.list ELSE <<>>

\* the same in every field, with the same options in the same order
SameHeader(a, b) ==
    /\ a.version = b.version
    /\ a.control_flag = b.control_flag
    /\ a.critical_flag = b.critical_flag
    /\ a.protocol = b.protocol
    /\ a.vni = b.vni
    /\ a.options_len = b.options_len
    /\ Len(OptionList(a)) = Len(OptionList(b))
    /\ \A i \in 1..Len(OptionList(a)) : SameOption(OptionList(a)[i], OptionList(b)[i])

\* C1: for every option with option_type <= 127 and 0..128 data bytes,
\* unmarshal of the bytes marshal produced returns the option itself
C1_OptionRoundTrip ==
    (/\ call = "TunnelOption::unmarshal"
     /\ ret.src = "vec"
     /\ ValidOption(opt)
     /\ TunnelOption_marshal(opt, <<>>).ok
     /\ vec = TunnelOption_marshal(opt, <<>>).buffer)
    => (ret.value.some /\ SameOption(ret.value.value, opt))

ValidHeader(h) ==
    /\ h.version = 0
    /\ h.vni < 16777216
    /\ \A i \in 1..Len(OptionList(h)) : ValidOption(OptionList(h)[i])
    /\ h.options_len = Header_opt_len(h)
    /\ Header_opt_len(h) <= 252

\* C2: for every valid header, unmarshal of the bytes marshal produced
\* returns the header itself and the number of encoded bytes
C2_HeaderRoundTrip ==
    (/\ call = "Header::unmarshal"
     /\ ret.src = "vec"
     /\ ValidHeader(hdr)
     /\ Header_marshal(hdr, <<>>).ok
     /\ vec = Header_marshal(hdr, <<>>).buffer)
    => (/\ ~ret.value.panic
        /\ ret.value.some
        /\ SameHeader(ret.value.hdr, hdr)
        /\ ret.value.cursor = Len(vec))

\* C3: on every input buffer the header and packet decoders return a value
\* or a failure; none of them panics on a slice out of bounds or a u8 overflow
C3_DecodeNeverPanics ==
    /\ call = "Header::unmarshal" => ~ret.value.panic
    /\ call \in {"GenevePacket::new", "GenevePacket::unmarshal", "GenevePacket::try_from"}
        => ~ret.panic

\* C4: a fixed-buffer encode that returns an error leaves every byte of
\* the destination as it was
C4_FailedEncodeWritesNothing ==
    (/\ call \in {"TunnelOption::marshal_to_slice", "Header::marshal_to_slice",
                  "GenevePacket::marshal_to_slice"}
     /\ ~ret.ok)
    => dst = dst0

RECURSIVE OptionOverruns(_, _, _)
\* some option record in buffer[cursor..end] declares more data than the area holds
OptionOverruns(buffer, cursor, end) ==
    IF end - cursor < 4 THEN FALSE
    ELSE LET l == (buffer[cursor + 4] % 32) * 4
         IN  IF cursor + 4 + l > end THEN TRUE
             ELSE OptionOverruns(buffer, cursor + 4 + l, end)

\* the option area the buffer declares: (byte 0 & 0x3f) * 4
DeclaredArea(buffer) == (buffer[1] % 64) * 4

Truncated(buffer) ==
    \/ DeclaredArea(buffer) > Len(buffer) - 8
    \/ OptionOverruns(buffer, 8, 8 + DeclaredArea(buffer))

\* C5: header decode returns no header for a version-0 input of at least 8
\* bytes whose declared option area, or an option inside it, is truncated
C5_TruncatedHeaderFails ==
    (/\ call = "Header::unmarshal"
     /\ ret.src = "input"
     /\ Len(input) >= 8
     /\ input[1] \div 64 = 0
     /\ Truncated(input))
    => ~ret.value.some

\* C6: GenevePacket::unmarshal and try_from return InvalidLength under 8
\* bytes, NotGeneve for a version other than 0, and a packet without
\* options for exactly 8 bytes of version 0 and option length 0
C6_PacketDecodeErrors ==
    call \in {"GenevePacket::unmarshal", "GenevePacket::try_from"}
    => /\ Len(input) < 8 => (~ret.ok /\ ret.err = "InvalidLength")
       /\ (Len(input) >= 8 /\ input[1] \div 64 # 0) => (~ret.ok /\ ret.err = "NotGeneve")
       /\ (Len(input) = 8 /\ input[1] = 0) => (ret.ok /\ pkt.some /\ ~pkt.hdr.options.some)

\* offset = 8 + options_len = 8 + sum of the options' opt_len(), within the buffer
OffsetInvariant(h, cursor, buffer) ==
    /\ cursor = 8 + h.options_len
    /\ h.options_len = Header_opt_len(h)
    /\ cursor <= Len(buffer)

\* C7: after every successful header or packet decode the payload offset is
\* 8 + options_len, options_len is the sum of the decoded options' opt_len(),
\* and the offset is within the buffer
C7_OffsetInvariant ==
    /\ (call = "Header::unmarshal" /\ ret.src = "input" /\ ret.value.some)
        => OffsetInvariant(ret.value.hdr, ret.value.cursor, input)
    /\ (call \in {"GenevePacket::new", "GenevePacket::unmarshal", "GenevePacket::try_from"}
        /\ ret.ok)
        => OffsetInvariant(pkt.hdr, pkt.offset, pkt.payload)

\* the wire form of an option: class big-endian, type with c_flag on top,
\* ceil(data_len / 4), the data, zero padding to a multiple of 4
WireOption(o) ==
    << o.option_class \div 256, o.option_class % 256,
       o.option_type + (IF o.c_flag THEN 128 ELSE 0),
       (data_len(o) + 3) \div 4 >>
    \o DataBytes(o)
    \o [i \in 1..(RoundUp4(data_len(o)) - data_len(o)) |-> 0]

Agree(r, d0, d, m) ==
    /\ r.ok = m.ok
    /\ r.ok => /\ r.n = Len(m.buffer)
               /\ Len(d) = Len(d0)
               /\ SubSeq(d, 1, r.n) = m.buffer
               /\ SubSeq(d, r.n + 1, Len(d)) = SubSeq(d0, r.n + 1, Len(d0))

\* C9: on a destination at least as long as required, marshal_to_slice
\* succeeds exactly when marshal does, returns the number of bytes marshal
\* appends, writes those bytes at the front and leaves the rest unchanged
C9_EncodersAgree ==
    /\ (call = "TunnelOption::marshal_to_slice" /\ Len(dst0) >= TunnelOption_opt_len(opt))
        => Agree(ret, dst0, dst, TunnelOption_marshal(opt, <<>>))
    /\ (call = "Header::marshal_to_slice" /\ Len(dst0) >= header_len(hdr))
        => Agree(ret, dst0, dst, Header_marshal(hdr, <<>>))
    /\ (call = "GenevePacket::marshal_to_slice"
        /\ Len(dst0) >= header_len(pkt.hdr) + Len(pkt.payload) - pkt.offset)
        => Agree(ret, dst0, dst, GenevePacket_marshal(pkt, <<>>))

C9_Witness ==
    /\ call = "GenevePacket::marshal_to_slice"
    /\ ret.ok
    /\ pkt.hdr.options.some
    /\ Len(pkt.hdr.options.list) = 2
    /\ data_len(pkt.hdr.options.list[1]) = 2
    /\ Len(pkt.payload) > pkt.offset
    /\ Len(dst) > ret.n

\* C10: for every option with absent data or 0..128 data bytes, advance()
\* returns opt_len(), namely 4 + round_up_4(data_len)
C10_AdvanceEqualsOptLen ==
    (call = "TunnelOption::advance" /\ data_len(opt) <= 128)
    => (/\ ret.value = TunnelOption_opt_len(opt)
        /\ ret.value = 4 + RoundUp4(data_len(opt)))

\* C11: whenever Header::marshal or Header::marshal_to_slice succeeds, the
\* low 6 bits of output byte 0 times 4 equal the number of option bytes
\* emitted after the 8-byte fixed header
C11_LengthFieldMatchesOptionArea ==
    /\ (call = "Header::marshal" /\ ret.ok)
        => (vec[1] % 64) * 4 = Len(vec) - MIN_SIZE
    /\ (call = "Header::marshal_to_slice" /\ ret.ok)
        => (dst[1] % 64) * 4 = ret.n - MIN_SIZE

====
